---- MODULE Spec2Model ----
(***************************************************************************)
(* Model of the buy bot of src/index.js: the retry wrapper (withRetry),    *)
(* the two-hop price oracle (getBescUsdPrice), the pool statistics         *)
(* (fetchStats), the swap log handler (handleSwapLog), the polling tick    *)
(* (pollSwaps) and the /start handler.                                     *)
(*                                                                         *)
(* Numbers.  On-chain integers (BigInt) are written m * 10^e in a canonical *)
(* form, so that amounts such as 5 * 10^20 stay inside TLC's integers.     *)
(* The floats the code derives from them are IEEE doubles, written         *)
(* m * 2^e with m an odd natural of at most 53 bits kept as a sequence of  *)
(* limbs: parseFloat, the product and the quotient round to the nearest    *)
(* double, ties to even, as the code's do.                                 *)
(***************************************************************************)
EXTENDS Integers, Sequences, FiniteSets, TLC

VARIABLES
    rt,           \* one withRetry call: its arguments and its loop state
    orc,          \* one getBescUsdPrice call: the router's answers, its result
    sw,           \* one handleSwapLog call (or one fetchStats call): the log, the
                  \* environment, its effect
    chainHeight,  \* the chain's current block height
    lastBlock,    \* the scan cursor (line 215)
    CHAT_ID,      \* the recipient of the alerts (line 33)
    timers,       \* the number of setInterval(pollSwaps) timers registered
    starter,      \* the /start handler calls in flight, by slot: the position of
                  \* each, and the height its read was answered with
    exits,        \* the codes process.exit was called with (none: the process runs)
    ticks,        \* the pollSwaps calls in flight, by slot
    startHeight,  \* history: the height the first start set the cursor to (0: none yet)
    observe,      \* the histories below that the specification keeps (fixed by Init)
    covered,      \* history "coverage": the heights inside the range of a getLogs
                  \* that succeeded
    notified,     \* history "alerts": the logs an alert was sent for
    handled,      \* history "handled": the handleSwapLog call that settled in the last
                  \* step, if one did, by the slot of its tick, the position of its
                  \* log in the batch and its outcome
    failedFrom,   \* history "refetch": fromBlock of the last failed tick (0: none awaits
                  \* its successor)
    refetch,      \* history "refetch": that fromBlock and the one of the next tick to
                  \* fetch logs
    gaveUp        \* history "gaveup": the slot of the pollSwaps call that ended in its
                  \* catch in the last step, withRetry having thrown (0: none did)

pollVars == <<chainHeight, lastBlock, CHAT_ID, timers, starter, exits, ticks, covered,
              startHeight, observe, notified, handled, failedFrom, refetch, gaveUp>>

vars == <<rt, orc, sw, pollVars>>

\* ------------------------------------------------------------- bounds

MaxAttempts == 3      \* largest `retries` argument explored for withRetry

MaxAmt == 2           \* largest raw amount of a Swap log field

MaxHeight == 3        \* the chain grows from height 1 to this height

MaxTicks == 2         \* pollSwaps calls in flight at once

MaxTimers == 2        \* /start is explored while fewer timers than this are registered

MaxStarts == 2        \* /start handler calls in flight at once

\* ------------------------------------------------- program constants

MAX_RETRIES == 3

\* ------------------------------------------------------------ numbers

None == [kind |-> "None"]

RECURSIVE Pow10(_)
Pow10(k) == IF k = 0 THEN 1 ELSE 10 * Pow10(k - 1)

\* The number of factors 10 of k > 0.
RECURSIVE Tens(_)
Tens(k) == IF k % 10 = 0 THEN 1 + Tens(k \div 10) ELSE 0

\* The BigInt m * 10^e, canonical: m carries no factor 10, and zero is 0 * 10^0.
Big(m, e) ==
    IF m = 0 THEN [m |-> 0, e |-> 0]
    ELSE [m |-> m \div Pow10(Tens(m)), e |-> e + Tens(m)]

\* parseUnits(s, decimals) for a whole number s: s * 10^decimals.
parseUnits(s, decimals) == Big(s, decimals)

\* ------------------------------------------- naturals of any size
\* A natural is the sequence of its digits in base Limb = 2^LimbBits, the
\* least significant first and the last one not zero; zero is <<>>.

LimbBits == 15

Limb == 32768

RECURSIVE LimbsOf(_)
LimbsOf(n) == IF n = 0 THEN <<>> ELSE <<n % Limb>> \o LimbsOf(n \div Limb)

\* The digits of a without the zeros at its end.
Trim(a) ==
    IF \A i \in 1..Len(a) : a[i] = 0 THEN <<>>
    ELSE SubSeq(a, 1, CHOOSE i \in 1..Len(a) :
                          a[i] # 0 /\ \A j \in (i + 1)..Len(a) : a[j] = 0)

RECURSIVE Pow2(_)
Pow2(k) == IF k = 0 THEN 1 ELSE 2 * Pow2(k - 1)

\* The number of bits of 0 <= n < Limb, and of a natural.
RECURSIVE Bits(_)
Bits(n) == IF n = 0 THEN 0 ELSE 1 + Bits(n \div 2)

BitLen(a) == IF a = <<>> THEN 0 ELSE LimbBits * (Len(a) - 1) + Bits(a[Len(a)])

IsOdd(a) == a # <<>> /\ a[1] % 2 = 1

\* a + b + c for a carry c < Limb.
RECURSIVE PlusCarry(_, _, _)
PlusCarry(a, b, c) ==
    IF a = <<>> /\ b = <<>> THEN LimbsOf(c)
    ELSE LET v == (IF a = <<>> THEN 0 ELSE a[1]) + (IF b = <<>> THEN 0 ELSE b[1]) + c
         IN  <<v % Limb>> \o PlusCarry(IF a = <<>> THEN a ELSE Tail(a),
                                        IF b = <<>> THEN b ELSE Tail(b), v \div Limb)

Plus(a, b) == PlusCarry(a, b, 0)

\* a - b - c for a >= b + c and a borrow c of 0 or 1, not trimmed.
RECURSIVE MinusBorrow(_, _, _)
MinusBorrow(a, b, c) ==
    IF a = <<>> THEN <<>>
    ELSE LET v == a[1] - (IF b = <<>> THEN 0 ELSE b[1]) - c
         IN  <<(v + Limb) % Limb>> \o MinusBorrow(Tail(a), IF b = <<>> THEN b ELSE Tail(b),
                                                 IF v < 0 THEN 1 ELSE 0)

Minus(a, b) == Trim(MinusBorrow(a, b, 0))

\* The sign of a - b: the longer one is the larger, and of two of one length
\* the one with the larger digit at the highest place they differ in.
RECURSIVE CmpFrom(_, _, _)
CmpFrom(a, b, i) ==
    IF i = 0 THEN 0
    ELSE IF a[i] < b[i] THEN 0 - 1
    ELSE IF a[i] > b[i] THEN 1
    ELSE CmpFrom(a, b, i - 1)

Cmp(a, b) ==
    IF Len(a) < Len(b) THEN 0 - 1
    ELSE IF Len(a) > Len(b) THEN 1
    ELSE CmpFrom(a, b, Len(a))

\* a * k + c for k, c < Limb, not trimmed.
RECURSIVE TimesCarry(_, _, _)
TimesCarry(a, k, c) ==
    IF a = <<>> THEN LimbsOf(c)
    ELSE LET v == a[1] * k + c
         IN  <<v % Limb>> \o TimesCarry(Tail(a), k, v \div Limb)

TimesSmall(a, k) == Trim(TimesCarry(a, k, 0))

\* a * Limb.
ShiftLimb(a) == IF a = <<>> THEN a ELSE <<0>> \o a

\* a * k + above * Limb.
TimesDigit(above, a, k) ==
    IF above = <<>> THEN TimesSmall(a, k) ELSE Plus(TimesSmall(a, k), ShiftLimb(above))

\* a times the digits j and above of b, and a * b.
RECURSIVE TimesFrom(_, _, _)
TimesFrom(a, b, j) ==
    IF j > Len(b) THEN <<>> ELSE TimesDigit(TimesFrom(a, b, j + 1), a, b[j])

Times(a, b) == TimesFrom(a, b, 1)

\* a * 2^k: the digits of a, each split at bit LimbBits - k % LimbBits, its
\* low part joined to the high part of the digit below, above k \div LimbBits
\* zeros.
ShiftLeft(a, k) ==
    LET p == Pow2(k % LimbBits)
        t == Trim([i \in 1..(Len(a) + 1) |->
                      (IF i <= Len(a) THEN (a[i] % (Limb \div p)) * p ELSE 0)
                      + (IF i > 1 THEN a[i - 1] \div (Limb \div p) ELSE 0)])
    IN  IF t = <<>> THEN t ELSE [i \in 1..(k \div LimbBits) |-> 0] \o t

\* The whole part of a / 2^k: the digits of a from k \div LimbBits + 1 on,
\* each split at bit k % LimbBits, its high part joined to the low part of
\* the digit above.
ShiftRight(a, k) ==
    LET p == Pow2(k % LimbBits)
        n == k \div LimbBits
    IN  Trim([i \in 1..(Len(a) - n) |->
                 a[i + n] \div p
                 + (IF i + n < Len(a) THEN (a[i + n + 1] % p) * (Limb \div p) ELSE 0)])

\* The number of factors 2 of n > 0, and of a natural a # 0.
RECURSIVE Twos(_)
Twos(n) == IF n % 2 = 0 THEN 1 + Twos(n \div 2) ELSE 0

TrailingZeros(a) ==
    LET i == CHOOSE i \in 1..Len(a) : a[i] # 0 /\ \A j \in 1..(i - 1) : a[j] = 0
    IN  LimbBits * (i - 1) + Twos(a[i])

\* 5^k, by squaring.
RECURSIVE Pow5(_)
Pow5(k) ==
    IF k = 0 THEN <<1>>
    ELSE LET h == Pow5(k \div 2)
         IN  IF k % 2 = 0 THEN Times(h, h) ELSE TimesSmall(Times(h, h), 5)

\* One digit of a long division: the whole part of r / d, which is below
\* Limb, for a divisor d whose highest digit is Limb / 2 or more.  The two
\* highest digits of r divided by the highest of d give it, or exceed it by
\* at most 2.
QuotDigit(r, d) ==
    LET Corrected(est) ==
            IF Cmp(TimesSmall(d, est), r) <= 0 THEN est
            ELSE IF Cmp(TimesSmall(d, est - 1), r) <= 0 THEN est - 1
            ELSE est - 2
        Capped(est) == Corrected(IF est >= Limb THEN Limb - 1 ELSE est)
        Top(n) == (IF Len(r) > n THEN r[n + 1] * Limb ELSE 0)
                  + (IF Len(r) >= n THEN r[n] ELSE 0)
    IN  Capped(Top(Len(d)) \div d[Len(d)])

\* One step of a long division by d: the digits above were divided, with
\* quotient above.q and remainder above.r, and the digit x comes next.
DivLongDigit(above, x, d) ==
    IF above.r = <<>> /\ x = 0 THEN [q |-> <<0>> \o above.q, r |-> <<>>]
    ELSE LET Taken(cur, digit) ==
                 [q |-> <<digit>> \o above.q, r |-> Minus(cur, TimesSmall(d, digit))]
             Step(cur) == Taken(cur, QuotDigit(cur, d))
         IN  Step(<<x>> \o above.r)

\* Long division of a by d, from the highest digit down: the quotient and
\* the remainder once the digits i and above of a are divided.  The highest
\* Len(d) - 1 digits of a are less than d, and are the first remainder.
RECURSIVE DivLongTo(_, _, _)
DivLongTo(a, d, i) ==
    IF i > Len(a) - (Len(d) - 1) THEN [q |-> <<>>, r |-> Trim(SubSeq(a, i, Len(a)))]
    ELSE DivLongDigit(DivLongTo(a, d, i + 1), a[i], d)

\* The whole part of a / b for b # 0, and whether a fraction was left out.
\* Both are scaled by the power of 2 that brings the highest digit of b to
\* Limb / 2 or more.
DivMod(a, b) ==
    LET Result(d) == [q |-> Trim(d.q), r |-> d.r # <<>>]
        Scaled(z) == Result(DivLongTo(ShiftLeft(a, z), ShiftLeft(b, z), 1))
    IN  Scaled(LimbBits - Bits(b[Len(b)]))

\* ------------------------------------------------------------ doubles
\* A JavaScript number that is not negative: the double m * 2^e, canonical
\* (m is odd, and zero is 0 * 2^0), Infinity or NaN.

Precision == 53      \* the bits of a double's significand

MinExp == 0 - 1074   \* the smallest double is 2^MinExp

MaxExp == 1024       \* every double is below 2^MaxExp

Zero == [kind |-> "num", m |-> <<>>, e |-> 0]

Infinity == [kind |-> "inf"]

NaN == [kind |-> "nan"]

\* The double m * 2^e, for m of at most Precision bits and e >= MinExp.
Double(m, e) ==
    IF m = <<>> THEN Zero
    ELSE IF BitLen(m) + e > MaxExp THEN Infinity
    ELSE LET Odd(z) == [kind |-> "num", m |-> ShiftRight(m, z), e |-> e + z]
         IN  Odd(TrailingZeros(m))

\* The double nearest to (q + f) * 2^e, ties to even, where the fraction f is
\* 0, or when `sticky` some value above 0 and below 1 (q then has more than
\* Precision bits).  The bits of q that do not fit (below the significand, or
\* below 2^MinExp) are dropped, and the result is rounded up when they are
\* more than one half of the last place kept, or one half and the place is odd.
Round(q, sticky, e) ==
    LET Up(m, c) == c > 0 \/ (c = 0 /\ (sticky \/ IsOdd(m)))
        Kept(m, drop) ==
            Double(IF Up(m, Cmp(Minus(q, ShiftLeft(m, drop)), ShiftLeft(<<1>>, drop - 1)))
                   THEN Plus(m, <<1>>) ELSE m,
                   e + drop)
        Dropping(drop) == IF drop <= 0 THEN Double(q, e) ELSE Kept(ShiftRight(q, drop), drop)
        Exceeding(excess) == Dropping(IF e + excess < MinExp THEN MinExp - e ELSE excess)
    IN  Exceeding(BitLen(q) - Precision)

\* The number literal n, a whole number.
Float(n) == Round(LimbsOf(n), FALSE, 0)

\* a * b.
FMul(a, b) ==
    IF a.kind = "nan" \/ b.kind = "nan" THEN NaN
    ELSE IF a.kind = "inf" \/ b.kind = "inf"
    THEN (IF a = Zero \/ b = Zero THEN NaN ELSE Infinity)
    ELSE Round(Times(a.m, b.m), FALSE, a.e + b.e)

\* a / b.  The dividend is scaled by a power of 2 that leaves the quotient
\* with three bits more than a significand.
FDiv(a, b) ==
    IF a.kind = "nan" \/ b.kind = "nan" THEN NaN
    ELSE IF a.kind = "inf" THEN (IF b.kind = "inf" THEN NaN ELSE Infinity)
    ELSE IF b.kind = "inf" THEN Zero
    ELSE IF b = Zero THEN (IF a = Zero THEN NaN ELSE Infinity)
    ELSE IF a = Zero THEN Zero
    ELSE LET Rounded(d, s) == Round(d.q, d.r, a.e - b.e - s)
             Scaled(s) == Rounded(DivMod(ShiftLeft(a.m, s), b.m), s)
         IN  Scaled(Precision + 3 + BitLen(b.m) - BitLen(a.m))

\* parseFloat(formatUnits(x, decimals)): formatUnits writes the BigInt x
\* scaled down by 10^decimals in full, and parseFloat reads the double
\* nearest to it.  With k = x.e - decimals the value is x.m * 5^k * 2^k; for
\* k < 0 the division by 5^-k is made on x.m scaled by a power of 2 that
\* leaves the quotient with two bits more than a significand, or more.
formatUnits(x, decimals) ==
    LET Rounded(d, e) == Round(d.q, d.r, e)
        Scaled(m, p, k, s) == Rounded(DivMod(ShiftLeft(m, s), p), k - s)
        Divided(m, p, k, s) == Scaled(m, p, k, IF s > 0 THEN s ELSE 0)
        Fraction(m, p, k) == Divided(m, p, k, BitLen(p) + Precision + 2 - BitLen(m))
        Value(m, k) == IF k >= 0 THEN Round(Times(m, Pow5(k)), FALSE, k)
                       ELSE Fraction(m, Pow5(0 - k), k)
    IN  Value(LimbsOf(x.m), x.e - decimals)

\* formatEther(x) is formatUnits(x, 18).
formatEther(x) == formatUnits(x, 18)

\* The double nearest to m * 10^e, as the number literal of that value.
Decimal(m, e) == formatUnits(Big(m, e), 0)

\* ---------------------------------------------------------- withRetry
\* An operation `fn` is given by the outcome of each of its invocations:
\* script[i] is [ok |-> TRUE, val |-> v] (the promise resolves with v) or
\* [ok |-> FALSE, msg |-> m] (it rejects with an error of message m).

Ok(v) == [ok |-> TRUE, val |-> v]

Fail(m) == [ok |-> FALSE, msg |-> m]

\* Entry of the for loop: attempt = 1; the loop body runs while attempt <= retries.
\* With no iteration the function falls off its end and resolves undefined.
RetryStart(retries) ==
    [attempt |-> 1, calls |-> 0, warned |-> 0,
     status |-> IF 1 <= retries THEN "running" ELSE "undefined",
     value |-> None]

\* The test of line 67: the failed attempt was the last one.
LastAttemptMutant(attempt, retries) == attempt >= retries - 1

LastAttempt(attempt, retries) == attempt = retries

\* The error thrown at line 67.
RetryExhaustedError(msg) == [kind |-> "Error", message |-> "Max retries reached: " \o msg]

\* One iteration of the loop body up to its await of the delay: fn is invoked;
\* a success returns its value, a failure is warned about and either throws
\* (last attempt) or starts the delay.
RetryIterMutant(st, script, retries) ==
    LET o == script[st.attempt] IN
    IF o.ok
    THEN [st EXCEPT !.calls = @ + 1, !.status = "waiting"]
    ELSE IF LastAttempt(st.attempt, retries)
    THEN [st EXCEPT !.calls = @ + 1, !.warned = @ + 1, !.status = "threw",
                    !.value = RetryExhaustedError(o.msg)]
    ELSE [st EXCEPT !.calls = @ + 1, !.warned = @ + 1, !.status = "waiting"]

RetryIter(st, script, retries) ==
    LET o == script[st.attempt] IN
    IF o.ok
    THEN [st EXCEPT !.calls = @ + 1, !.status = "returned", !.value = o.val]
    ELSE IF LastAttempt(st.attempt, retries)
    THEN [st EXCEPT !.calls = @ + 1, !.warned = @ + 1, !.status = "threw",
                    !.value = RetryExhaustedError(o.msg)]
    ELSE [st EXCEPT !.calls = @ + 1, !.warned = @ + 1, !.status = "waiting"]

\* The delay elapsed: attempt++ and the loop test.
RetryWake(st, retries) ==
    [st EXCEPT !.attempt = @ + 1,
               !.status = IF st.attempt + 1 <= retries THEN "running" ELSE "undefined"]

RetryTerminal(st) == st.status \in {"returned", "threw", "undefined"}

\* The whole call: the loop run to its end.
RECURSIVE RetryRun(_, _, _)
RetryRun(st, script, retries) ==
    IF RetryTerminal(st) THEN st
    ELSE IF st.status = "running" THEN RetryRun(RetryIter(st, script, retries), script, retries)
    ELSE RetryRun(RetryWake(st, retries), script, retries)

withRetry(script, retries) == RetryRun(RetryStart(retries), script, retries)

\* The result of a withRetry call as its caller sees it after the await.
Threw(r) == r.status = "threw"

\* ---------------------------------------------------- getBescUsdPrice
\* A router answer to getAmountsOut: absent (null / undefined), or an array of
\* BigInt amounts, one per token of the path.

NoResponse == [present |-> FALSE, amounts |-> <<>>]

Amounts(a) == [present |-> TRUE, amounts |-> a]

\* The tests of lines 81 and 92: !amountsOut || !amountsOut[1].  Index 1 of
\* the array is index 2 of the sequence; a BigInt 0n is falsy.
InvalidAmountsOutMutant(resp) ==
    \/ ~resp.present
    \/ Len(resp.amounts) < 2

InvalidAmountsOut(resp) ==
    \/ ~resp.present
    \/ Len(resp.amounts) < 2
    \/ resp.amounts[2].m = 0

\* The catch of lines 102-105: the error is logged and null is returned.
OracleCatchMutant(err) == [status |-> "threw", value |-> err]

OracleCatch(err) == [status |-> "returned", value |-> None]

InvalidQuoteError(hop) ==
    [kind |-> "Error", message |-> "Invalid amountsOut response for " \o hop]

\* Lines 76-85: the result of the first quote, awaited; the function goes on
\* to the second quote with bescToWvsg, or ends in the catch.
OracleHop1(r1) ==
    IF Threw(r1) THEN [pc |-> "done", hop1 |-> None, out |-> OracleCatch(r1.value)]
    ELSE IF InvalidAmountsOut(r1.value)
    THEN [pc |-> "done", hop1 |-> None,
          out |-> OracleCatch(InvalidQuoteError("BESC -> WVSG"))]
    ELSE [pc |-> "hop2", hop1 |-> formatUnits(r1.value.amounts[2], 18),
          out |-> [status |-> "running", value |-> None]]

\* The number of router quotes a call that ended in state st has asked for.
OracleQuotes(r1) == IF Threw(r1) \/ InvalidAmountsOut(r1.value) THEN 1 ELSE 2

\* Lines 87-101: the result of the second quote, awaited, and the product.
OracleHop2(st, r2) ==
    IF Threw(r2) THEN [st EXCEPT !.pc = "done", !.out = OracleCatch(r2.value)]
    ELSE IF InvalidAmountsOut(r2.value)
    THEN [st EXCEPT !.pc = "done",
                    !.out = OracleCatch(InvalidQuoteError("WVSG -> USDC"))]
    ELSE [st EXCEPT !.pc = "done",
                    !.out = [status |-> "returned",
                             value |-> FMul(st.hop1,
                                            formatUnits(r2.value.amounts[2], 6))]]

\* The whole call, given what the two withRetry calls end in.
getBescUsdPrice(r1, r2) ==
    LET After(s1) == IF s1.pc = "done" THEN s1.out ELSE OracleHop2(s1, r2).out
    IN  After(OracleHop1(r1))

\* --------------------------------------------------------- fetchStats
\* An address is a hex string in some letter case; toLowerCase() maps every
\* spelling of one address to the same one.

Address(id, cased) == [id |-> id, cased |-> cased]

toLowerCase(a) == [a EXCEPT !.cased = "lower"]

BESC_ADDRESS == Address("besc", "checksum")

TOKEN_ADDRESS == Address("money", "checksum")

\* Line 117.
IsBescFirst(t0) == toLowerCase(t0) = toLowerCase(BESC_ADDRESS)

\* Line 122 reading the reserve of the base asset's slot.
ReserveTokFloatMutant(reserves, t0) ==
    formatEther(IF IsBescFirst(t0) THEN reserves[1] ELSE reserves[2])

\* Line 121 with the 18 decimals of the other token.
ReserveBescFloatMutant(reserves, t0) ==
    formatUnits(IF IsBescFirst(t0) THEN reserves[1] ELSE reserves[2], 18)

\* Lines 118-122: the two reserves, picked by slot and scaled to floats.
ReserveBescFloat(reserves, t0) ==
    formatUnits(IF IsBescFirst(t0) THEN reserves[1] ELSE reserves[2], 9)

ReserveTokFloat(reserves, t0) ==
    formatEther(IF IsBescFirst(t0) THEN reserves[2] ELSE reserves[1])

\* Line 126.
ZeroReserve(x) == x = Zero

\* Lines 155-160.
Snapshot(priceUsd, marketCap, liquidityUsd, supplyFloat) ==
    [kind |-> "snapshot", priceUsd |-> priceUsd, marketCap |-> marketCap,
     liquidityUsd |-> liquidityUsd, supply |-> supplyFloat]

\* The catch of lines 161-164.
StatsCatchMutant(calls, divided) ==
    [value |-> Snapshot(None, None, None, None), calls |-> calls, divided |-> divided]

StatsCatch(calls, divided) == [value |-> None, calls |-> calls, divided |-> divided]

\* The reads a call has started by the time it ends, in order: those of
\* lines 111-114, the quotes of the oracle, and those of lines 143-146.
StatsReads(env, stage) ==
    <<"getReserves", "token0", "token1">>
    \o (IF stage < 2 THEN <<>>
        ELSE IF OracleQuotes(env.quote1) = 1 THEN <<"getAmountsOut">>
        ELSE <<"getAmountsOut", "getAmountsOut">>)
    \o (IF stage < 3 THEN <<>> ELSE <<"decimals", "totalSupply">>)

\* Lines 147-160, with the supply read.
StatsSupply(env, reserveBescFloat, bescUsd, priceUsd, supplyFloat) ==
    [value   |-> Snapshot(priceUsd, FMul(priceUsd, supplyFloat),
                          FMul(FMul(reserveBescFloat, bescUsd), Float(2)), supplyFloat),
     calls   |-> StatsReads(env, 3),
     divided |-> TRUE]

\* Lines 134-147, with what the oracle returned.
StatsPrice(env, reserveBescFloat, priceBescPerTok, oracle) ==
    IF oracle.status = "threw" \/ oracle.value = None
    THEN StatsCatch(StatsReads(env, 2), TRUE)
    ELSE IF Threw(env.decimals) \/ Threw(env.supply)
    THEN StatsCatch(StatsReads(env, 3), TRUE)
    ELSE StatsSupply(env, reserveBescFloat, oracle.value,
                     FMul(priceBescPerTok, oracle.value),
                     formatUnits(env.supply.value, env.decimals.value))

\* Lines 124-134, with the two reserves as floats.
StatsReserves(env, reserveBescFloat, reserveTokFloat) ==
    IF ZeroReserve(reserveTokFloat) THEN StatsCatch(StatsReads(env, 1), FALSE)
    ELSE StatsPrice(env, reserveBescFloat, FDiv(reserveBescFloat, reserveTokFloat),
                    getBescUsdPrice(env.quote1, env.quote2))

\* The whole call.  env gives what each withRetry call of fetchStats (and of
\* the oracle it invokes) ends in: reserves, tokens, quote1, quote2, decimals,
\* supply.  The result carries the reads that were started, in order, and
\* whether the division of line 131 was performed.
fetchStats(env) ==
    IF Threw(env.reserves) \/ Threw(env.tokens) THEN StatsCatch(StatsReads(env, 1), FALSE)
    ELSE StatsReserves(env,
                       ReserveBescFloat(env.reserves.value, env.tokens.value[1]),
                       ReserveTokFloat(env.reserves.value, env.tokens.value[1]))

\* ------------------------------------------------------ handleSwapLog
\* A log carries whether parseLog can decode it, the four amounts of the Swap
\* event (raw integers) and the recipient.

NoChat == 0      \* CHAT_ID = null

\* Lines 173-175.
IsBuyMutant(l) ==
    \/ (l.amount0In > 0 /\ l.amount1In = 0 /\ l.amount1Out > 0)
    \/ (l.amount1In > 0 /\ l.amount0In = 0 /\ l.amount0Out > 0)

IsBuy(l) ==
    \/ (l.amount0In > 0 /\ l.amount1Out > 0)
    \/ (l.amount1In > 0 /\ l.amount0Out > 0)

\* Lines 178-179.
AmountIn(l) == IF l.amount0In > 0 THEN l.amount0In ELSE l.amount1In

AmountOut(l) == IF l.amount1Out > 0 THEN l.amount1Out ELSE l.amount0Out

\* Lines 191-200: the text of the alert, as the values it is formatted from.
AlertMessage(l, paidBesc, gotTok, stats) ==
    [buyer |-> l.to, paid |-> paidBesc, received |-> gotTok,
     price |-> stats.priceUsd, marketCap |-> stats.marketCap,
     liquidity |-> stats.liquidityUsd, supply |-> stats.supply]

\* What a call ends in: its outcome, the message handed to
\* bot.telegram.sendMessage (None when sendMessage was not called), and what
\* its fetchStats call returned (NotCalled when it made none).
NotCalled == [kind |-> "NotCalled"]

SwapResult(outcome, message, stats) ==
    [outcome |-> outcome, message |-> message, stats |-> stats]

\* Line 186: the alert is built only from a snapshot.
StatsMissing(stats) == stats = None

\* Lines 186-207, with the two amounts as floats and what fetchStats returned.
SwapAlert(l, env, paidBesc, gotTok, stats) ==
    IF StatsMissing(stats) THEN SwapResult("nostats", None, stats)
    ELSE IF env.chatId = NoChat THEN SwapResult("nochat", None, stats)
    ELSE IF ~env.sendOk
    THEN SwapResult("error", AlertMessage(l, paidBesc, gotTok, stats), stats)
    ELSE SwapResult("sent", AlertMessage(l, paidBesc, gotTok, stats), stats)

\* The whole call.  env gives what the decimals read ends in (decimals), the
\* environment of fetchStats (stats), CHAT_ID at line 202 (chatId) and whether
\* sendMessage succeeds (sendOk).
handleSwapLog(l, env) ==
    IF ~l.valid THEN SwapResult("error", None, NotCalled)
    ELSE IF ~IsBuy(l) THEN SwapResult("skip", None, NotCalled)
    ELSE IF Threw(env.decimals) THEN SwapResult("error", None, NotCalled)
    ELSE SwapAlert(l, env,
                   formatUnits(Big(AmountIn(l), 0), 9),
                   formatUnits(Big(AmountOut(l), 0), env.decimals.value),
                   fetchStats(env.stats).value)

\* ------------------------------------------------ environments explored
\* What a withRetry call around an RPC read ends in: the read answers v at
\* once, answers v after one failed attempt, or fails MAX_RETRIES times.

Settled(v) == withRetry([i \in 1..MAX_RETRIES |-> Ok(v)], MAX_RETRIES)

Recovered(v) ==
    withRetry([i \in 1..MAX_RETRIES |-> IF i = 1 THEN Fail("timeout") ELSE Ok(v)],
              MAX_RETRIES)

Exhausted == withRetry([i \in 1..MAX_RETRIES |-> Fail("timeout")], MAX_RETRIES)

NotStarted == RetryStart(MAX_RETRIES)

\* getAmountsOut answers: none, an array without the output slot, a zero
\* output, and outputs of 2, 0.5 (18 decimals) and 1, 2.5 (6 decimals).
QuoteAnswers(amountIn) ==
    {NoResponse, Amounts(<<amountIn>>)} \cup
    {Amounts(<<amountIn, out>>) :
        out \in {Big(0, 0), Big(2, 18), Big(5, 17), Big(1, 6), Big(25, 5)}}

QuoteResults(amountIn) ==
    {Exhausted} \cup
    UNION {{Settled(a), Recovered(a)} : a \in QuoteAnswers(amountIn)}

Quote1Results == QuoteResults(parseUnits(1, 9))

Quote2Results == QuoteResults(parseUnits(1, 18))

\* The pool's tokens by slot: the base asset (BESC) is token0 (baseSlot = 0) or
\* token1 (baseSlot = 1), and the tracked token (MONEY) is the other one.
PoolTokens(baseSlot) ==
    IF baseSlot = 0 THEN <<Address("besc", "lower"), TOKEN_ADDRESS>>
    ELSE <<TOKEN_ADDRESS, BESC_ADDRESS>>

\* fetchStats environments of a pool.
StatsEnvs(baseSlot) ==
    [reserves : {Exhausted,
                 Settled(<<Big(5, 20), Big(1, 12)>>),
                 Settled(<<Big(0, 0), Big(5, 20)>>),
                 Settled(<<Big(1, 12), Big(0, 0)>>)},
     tokens   : {Exhausted, Settled(PoolTokens(baseSlot))},
     quote1   : {Exhausted, Settled(Amounts(<<parseUnits(1, 9), Big(2, 18)>>))},
     quote2   : {Settled(Amounts(<<parseUnits(1, 18), Big(0, 0)>>)),
                 Settled(Amounts(<<parseUnits(1, 18), Big(1, 6)>>))},
     decimals : {Exhausted, Settled(6)},
     supply   : {Exhausted, Settled(Big(1, 10))}]

SwapEnvs(baseSlot) ==
    [decimals : {Exhausted, Settled(18)},
     stats    : StatsEnvs(baseSlot),
     chatId   : {NoChat, 77},
     sendOk   : BOOLEAN]

\* Swap logs: every tuple of amounts up to MaxAmt, and one log parseLog rejects.
SwapLogs ==
    [valid : {TRUE}, amount0In : 0..MaxAmt, amount1In : 0..MaxAmt,
     amount0Out : 0..MaxAmt, amount1Out : 0..MaxAmt, to : {"0xbuyer"}]
    \cup
    {[valid |-> FALSE, amount0In |-> 0, amount1In |-> 0,
      amount0Out |-> 0, amount1Out |-> 0, to |-> "0xbuyer"]}

\* ------------------------------------------------------- idle values

RtIdle == [retries |-> 0, script |-> <<>>, st |-> RetryStart(0)]

OrcIdle == [quote1 |-> NotStarted, quote2 |-> NotStarted,
            st |-> [pc |-> "idle", hop1 |-> None,
                    out |-> [status |-> "running", value |-> None]]]

SwIdle == [phase |-> "idle"]

\* ------------------------------------------------------- the poller
\* The state at the end of the module's top level: no chat, cursor 0, no
\* timer, no pollSwaps call in flight.  The chain is at height 1.

TickIdle == [pc |-> "idle", currentBlock |-> 0, fromBlock |-> 0,
             fetch |-> NotStarted, idx |-> 0]

NoRefetch == [want |-> 0, got |-> 0]

NoneHandled == [tick |-> 0, pos |-> 0, outcome |-> "none"]

\* A slot with no /start handler call in it.
StarterIdle == [pc |-> "idle", startBlock |-> 0]

\* The bot before any /start, keeping the histories of the set obs.
PollStart(obs) ==
    /\ observe = obs
    /\ chainHeight = 1
    /\ lastBlock = 0
    /\ CHAT_ID = NoChat
    /\ timers = 0
    /\ starter = [s \in 1..MaxStarts |-> StarterIdle]
    /\ exits = <<>>
    /\ ticks = [t \in 1..MaxTicks |-> TickIdle]
    /\ notified = {}
    /\ handled = NoneHandled
    /\ covered = {}
    /\ startHeight = 0
    /\ failedFrom = 0
    /\ refetch = NoRefetch
    /\ gaveUp = 0

PollIdle == PollStart({})

Observed(history) == history \in observe

\* The Swap logs of the pair in block h, in log order: blocks 2, 5, ... hold a
\* log with slot 0 in and slot 1 out, then a log with no 'out' leg; blocks
\* 3, 6, ... hold one log with slot 1 in and slot 0 out; the others hold none.
SwapLog(h, i, a0In, a1In, a0Out, a1Out) ==
    [valid |-> TRUE, amount0In |-> a0In, amount1In |-> a1In,
     amount0Out |-> a0Out, amount1Out |-> a1Out, to |-> "0xbuyer",
     block |-> h, index |-> i]

BlockLogs(h) ==
    IF h % 3 = 2 THEN <<SwapLog(h, 0, 2, 0, 0, 1), SwapLog(h, 1, 1, 0, 0, 0)>>
    ELSE IF h % 3 = 0 THEN <<SwapLog(h, 0, 0, 2, 1, 0)>>
    ELSE <<>>

\* provider.getLogs({fromBlock, toBlock}): the logs of the blocks of the
\* inclusive range, ascending; none when the range is empty.
RECURSIVE GetLogs(_, _)
GetLogs(fromBlock, toBlock) ==
    IF fromBlock > toBlock THEN <<>>
    ELSE BlockLogs(fromBlock) \o GetLogs(fromBlock + 1, toBlock)

\* What provider.getBlockNumber() under withRetry can end in at height h.
HeightResults(h) == {Settled(h), Exhausted}

\* The environments a handleSwapLog call of a tick can meet: all reads fine,
\* the decimals read exhausted, the reserves read of fetchStats exhausted, and
\* sendMessage failing.  CHAT_ID is read from the state.
GoodStats ==
    [reserves |-> Settled(<<Big(5, 20), Big(1, 12)>>),
     tokens   |-> Settled(PoolTokens(0)),
     quote1   |-> Settled(Amounts(<<parseUnits(1, 9), Big(2, 18)>>)),
     quote2   |-> Settled(Amounts(<<parseUnits(1, 18), Big(1, 6)>>)),
     decimals |-> Settled(6),
     supply   |-> Settled(Big(1, 10))]

TickEnvs(chatId) ==
    {[decimals |-> Settled(18), stats |-> GoodStats, chatId |-> chatId, sendOk |-> TRUE],
     [decimals |-> Exhausted, stats |-> GoodStats, chatId |-> chatId, sendOk |-> TRUE],
     [decimals |-> Settled(18), stats |-> [GoodStats EXCEPT !.reserves = Exhausted],
      chatId |-> chatId, sendOk |-> TRUE],
     [decimals |-> Settled(18), stats |-> GoodStats, chatId |-> chatId, sendOk |-> FALSE]}

\* The logs a tick can meet, and what a handleSwapLog call for each can end
\* in, by the CHAT_ID it reads: the outcomes over the environments above.
ChainLogs ==
    UNION {{BlockLogs(h)[i] : i \in 1..Len(BlockLogs(h))} : h \in 1..MaxHeight}

HandlerOutcomes ==
    [chatId \in {NoChat, 77} |->
        [l \in ChainLogs |-> {handleSwapLog(l, env).outcome : env \in TickEnvs(chatId)}]]

\* The chain grows by a block.
ChainAdvance ==
    /\ chainHeight < MaxHeight
    /\ chainHeight' = chainHeight + 1
    /\ handled' = NoneHandled
    /\ gaveUp' = 0
    /\ UNCHANGED <<rt, orc, sw, observe, exits, lastBlock, CHAT_ID, timers, starter, ticks, notified,
                   covered, startHeight, failedFrom, refetch>>

\* ------------------------------------------------ the /start handler

\* The process is running: process.exit (lines 268, 276) was not called.
Alive == exits = <<>>

\* A /start arrives: lines 245-246, up to the await of ctx.reply.  Nothing
\* keeps a second call of the handler from beginning while another is at one
\* of its awaits.
StartBegin(s) ==
    /\ Alive
    /\ starter[s].pc = "idle"
    /\ \A u \in 1..(s - 1) : starter[u].pc # "idle"
    /\ timers < MaxTimers
    /\ CHAT_ID' = 77
    /\ starter' = [starter EXCEPT ![s] = [@ EXCEPT !.pc = "awaiting"]]
    /\ handled' = NoneHandled
    /\ gaveUp' = 0
    /\ UNCHANGED <<rt, orc, sw, observe, exits, chainHeight, lastBlock, timers, ticks,
                   notified, covered, startHeight, failedFrom, refetch>>

\* Lines 252-255, once the height read has settled with startBlock.
StartCursor(startBlock) ==
    /\ lastBlock' = startBlock
    /\ timers' = timers + 1
    /\ startHeight' = IF startHeight = 0 THEN startBlock ELSE startHeight

\* The catch of lines 256-259: the exit codes it leads to.  With its ctx.reply
\* sent the handler returns.  With that reply failing too the promise of the
\* handler is rejected, and what comes of it is the framework's business,
\* which is not in the source: the bot goes on, or bot.launch() rejects and
\* the process exits with code 1 (lines 274-277).
StartCatch(apologised, fatal) ==
    IF apologised \/ ~fatal THEN <<>> ELSE <<1>>

\* ctx.reply (line 246, which changes nothing here) settles and the height
\* read of line 251 is answered: the answer is on its way to the handler, or
\* either failed and the handler ends in its catch.
StartRead(s) ==
    /\ Alive
    /\ starter[s].pc = "awaiting"
    /\ \E replied \in BOOLEAN, r \in HeightResults(chainHeight),
          apologised \in BOOLEAN, fatal \in BOOLEAN :
          IF ~replied \/ Threw(r)
          THEN /\ starter' = [starter EXCEPT ![s] = StarterIdle]
               /\ exits' = exits \o StartCatch(apologised, fatal)
          ELSE /\ starter' = [starter EXCEPT ![s] =
                                 [pc |-> "resuming", startBlock |-> r.value]]
               /\ UNCHANGED exits
    /\ handled' = NoneHandled
    /\ gaveUp' = 0
    /\ UNCHANGED <<rt, orc, sw, observe, chainHeight, lastBlock, CHAT_ID, timers, ticks,
                   notified, covered, startHeight, failedFrom, refetch>>

\* The handler resumes after the await of line 251 with the height it was
\* answered: lines 252-255.
StartSettle(s) ==
    /\ Alive
    /\ starter[s].pc = "resuming"
    /\ starter' = [starter EXCEPT ![s] = StarterIdle]
    /\ StartCursor(starter[s].startBlock)
    /\ handled' = NoneHandled
    /\ gaveUp' = 0
    /\ UNCHANGED <<rt, orc, sw, observe, exits, chainHeight, CHAT_ID, ticks, notified,
                   covered, failedFrom, refetch>>

\* ------------------------------------------------- the end of the process

\* SIGINT is delivered (lines 263-268): bot.stop() settles and the process
\* exits with code 0, whatever calls are in flight.
Sigint ==
    /\ Alive
    /\ exits' = exits \o <<0>>
    /\ handled' = NoneHandled
    /\ gaveUp' = 0
    /\ UNCHANGED <<rt, orc, sw, observe, chainHeight, lastBlock, CHAT_ID, timers, starter,
                   ticks, notified, covered, startHeight, failedFrom, refetch>>

\* The promise of bot.launch() is rejected (lines 271-277): the process exits
\* with code 1.  What rejects it (Telegram out of reach, ...) is the
\* framework's business.
LaunchRejects ==
    /\ Alive
    /\ exits' = exits \o <<1>>
    /\ handled' = NoneHandled
    /\ gaveUp' = 0
    /\ UNCHANGED <<rt, orc, sw, observe, chainHeight, lastBlock, CHAT_ID, timers, starter,
                   ticks, notified, covered, startHeight, failedFrom, refetch>>

\* ---------------------------------------------------------- pollSwaps
\* A pollSwaps call is in flight from the moment its height read is answered:
\* the call does nothing before that, so the moment its timer fired is not
\* kept.

\* The error of a tick escapes pollSwaps: the promise of the call is rejected
\* with nobody to handle it.
TickFailedMutant(t, f) ==
    /\ ticks' = [ticks EXCEPT ![t] = [TickIdle EXCEPT !.pc = "rejected"]]
    /\ failedFrom' = IF Observed("refetch") THEN f ELSE failedFrom
    /\ gaveUp' = IF Observed("gaveup") THEN t ELSE gaveUp
    /\ UNCHANGED <<lastBlock, notified, covered, refetch>>

\* A tick ends in the catch of lines 237-239, having used fromBlock f (the
\* cursor + 1 when it never got to ask for logs).
TickFailed(t, f) ==
    /\ ticks' = [ticks EXCEPT ![t] = TickIdle]
    /\ failedFrom' = IF Observed("refetch") THEN f ELSE failedFrom
    /\ gaveUp' = IF Observed("gaveup") THEN t ELSE gaveUp
    /\ UNCHANGED <<lastBlock, notified, covered, refetch>>

\* Line 220.
NothingNew(currentBlock, cursor) == currentBlock <= cursor

\* Line 226, evaluated each time the closure of line 223 is invoked.
FromBlock(cursor) == cursor + 1

\* The height read of a call a timer made is answered (line 219): withRetry
\* throws and the call ends in the catch, or the answer is on its way to the
\* call, which waits for it while the chain grows and other callbacks run.
TickRead(t) ==
    /\ Alive
    /\ timers > 0
    /\ ticks[t].pc = "idle"
    /\ \A u \in 1..(t - 1) : ticks[u].pc # "idle"
    /\ \E r \in HeightResults(chainHeight) :
          IF Threw(r) THEN TickFailed(t, FromBlock(lastBlock))
          ELSE /\ ticks' = [ticks EXCEPT ![t] =
                               [@ EXCEPT !.pc = "height", !.currentBlock = r.value]]
               /\ gaveUp' = 0
               /\ UNCHANGED <<lastBlock, notified, covered, failedFrom, refetch>>
    /\ handled' = NoneHandled
    /\ UNCHANGED <<rt, orc, sw, observe, exits, chainHeight, CHAT_ID, timers, starter, startHeight>>

\* The call resumes after the await of line 219 with the height it was
\* answered: the return of line 220, or the first invocation of getLogs
\* (lines 222-230).  The first call to ask for logs after a tick failed is
\* that tick's successor.
TickHeight(t) ==
    /\ Alive
    /\ ticks[t].pc = "height"
    /\ IF NothingNew(ticks[t].currentBlock, lastBlock)
       THEN /\ ticks' = [ticks EXCEPT ![t] = TickIdle]
            /\ UNCHANGED <<lastBlock, notified, covered, failedFrom, refetch>>
       ELSE /\ ticks' = [ticks EXCEPT ![t] =
                            [@ EXCEPT !.pc = "logs",
                                      !.fromBlock = FromBlock(lastBlock),
                                      !.fetch = RetryStart(MAX_RETRIES)]]
            /\ IF failedFrom # 0
               THEN /\ refetch' = [want |-> failedFrom, got |-> FromBlock(lastBlock)]
                    /\ failedFrom' = 0
               ELSE UNCHANGED <<failedFrom, refetch>>
            /\ UNCHANGED <<lastBlock, notified, covered>>
    /\ handled' = NoneHandled
    /\ gaveUp' = 0
    /\ UNCHANGED <<rt, orc, sw, observe, exits, chainHeight, CHAT_ID, timers, starter, startHeight>>

\* Lines 232-236: the loop is over once every log of the batch was handled.
BatchDoneMutant(idx, logs) == idx >= 1 \/ idx = Len(logs)

BatchDone(idx, logs) == idx = Len(logs)

\* Lines 232-235 without line 236: the tick is over and the cursor stays.
TickContinueMutant(t, idx, logs) ==
    IF BatchDone(idx, logs)
    THEN /\ UNCHANGED lastBlock
         /\ ticks' = [ticks EXCEPT ![t] = TickIdle]
    ELSE /\ ticks' = [ticks EXCEPT ![t] =
                         [@ EXCEPT !.pc = "handle", !.idx = idx, !.fetch = NotStarted]]
         /\ UNCHANGED lastBlock

\* Lines 232-236 after a handler (or the fetch) settled with idx logs handled:
\* the loop goes on, or the cursor is set and the tick is over.
TickContinue(t, idx, logs) ==
    IF BatchDone(idx, logs)
    THEN /\ lastBlock' = ticks[t].currentBlock
         /\ ticks' = [ticks EXCEPT ![t] = TickIdle]
    ELSE /\ ticks' = [ticks EXCEPT ![t] =
                         [@ EXCEPT !.pc = "handle", !.idx = idx, !.fetch = NotStarted]]
         /\ UNCHANGED lastBlock

\* An invocation of getLogs settles: the batch arrives and the loop starts,
\* or the attempt failed and withRetry throws (the catch) or waits.
TickLogs(t) ==
    /\ Alive
    /\ ticks[t].pc = "logs"
    /\ ticks[t].fetch.status = "running"
    /\ \E o \in {Ok(GetLogs(ticks[t].fromBlock, ticks[t].currentBlock)), Fail("timeout")} :
          LET st == RetryIter(ticks[t].fetch, [i \in 1..MAX_RETRIES |-> o], MAX_RETRIES) IN
          IF st.status = "returned"
          THEN /\ covered' = IF Observed("coverage")
                             THEN covered \cup (ticks[t].fromBlock..ticks[t].currentBlock)
                             ELSE covered
               /\ TickContinue(t, 0, st.value)
               /\ gaveUp' = 0
               /\ UNCHANGED <<notified, failedFrom, refetch>>
          ELSE IF st.status = "threw" THEN TickFailed(t, ticks[t].fromBlock)
          ELSE /\ ticks' = [ticks EXCEPT ![t] = [@ EXCEPT !.fetch = st]]
               /\ gaveUp' = 0
               /\ UNCHANGED <<lastBlock, notified, covered, failedFrom, refetch>>
    /\ handled' = NoneHandled
    /\ UNCHANGED <<rt, orc, sw, observe, exits, chainHeight, CHAT_ID, timers, starter, startHeight>>

\* The delay of withRetry elapses: the closure of line 223 is invoked again,
\* and reads the cursor again.
TickLogsRetry(t) ==
    /\ Alive
    /\ ticks[t].pc = "logs"
    /\ ticks[t].fetch.status = "waiting"
    /\ ticks' = [ticks EXCEPT ![t] =
                    [@ EXCEPT !.fetch = RetryWake(ticks[t].fetch, MAX_RETRIES),
                              !.fromBlock = FromBlock(lastBlock)]]
    /\ handled' = NoneHandled
    /\ gaveUp' = 0
    /\ UNCHANGED <<rt, orc, sw, observe, exits, chainHeight, lastBlock, CHAT_ID, timers, starter,
                   notified, covered, startHeight, failedFrom, refetch>>

\* The batch of a tick in its loop: the logs its getLogs returned.
Batch(t) == GetLogs(ticks[t].fromBlock, ticks[t].currentBlock)

\* The catch of lines 209-211 logs the error and rethrows nothing: the promise
\* of a handleSwapLog call is never rejected, whatever the call ended in.
HandlerThrowsMutant(outcome) == outcome = "error"

HandlerThrows(outcome) == FALSE

\* Line 232: the loop takes the logs in the order of the array, so that with
\* idx of them handled the next is the one at position idx + 1.
NextPosMutant(idx, logs) == Len(logs) - idx

NextPos(idx, logs) == idx + 1

\* handleSwapLog of the next log of the batch settles (line 233), and the
\* loop goes on or ends.
TickHandle(t) ==
    /\ Alive
    /\ ticks[t].pc = "handle"
    /\ LET l == Batch(t)[NextPos(ticks[t].idx, Batch(t))] IN
       \E outcome \in HandlerOutcomes[CHAT_ID][l] :
          /\ notified' = IF Observed("alerts") /\ outcome = "sent"
                         THEN notified \cup {<<l.block, l.index>>}
                         ELSE notified
          /\ handled' = IF Observed("handled")
                        THEN [tick |-> t, pos |-> NextPos(ticks[t].idx, Batch(t)),
                              outcome |-> outcome]
                        ELSE handled
          /\ IF HandlerThrows(outcome)
             THEN /\ ticks' = [ticks EXCEPT ![t] = TickIdle]
                  /\ UNCHANGED lastBlock
             ELSE TickContinue(t, ticks[t].idx + 1, Batch(t))
    /\ gaveUp' = 0
    /\ UNCHANGED <<rt, orc, sw, observe, exits, chainHeight, CHAT_ID, timers, starter, covered,
                   startHeight, failedFrom, refetch>>

PollInit ==
    /\ rt = RtIdle
    /\ orc = OrcIdle
    /\ sw = SwIdle
    /\ PollIdle

Next ==
    \/ ChainAdvance
    \/ \E s \in 1..MaxStarts : StartBegin(s)
    \/ \E s \in 1..MaxStarts : StartRead(s)
    \/ \E s \in 1..MaxStarts : StartSettle(s)
    \/ Sigint
    \/ LaunchRejects
    \/ \E t \in 1..MaxTicks : TickRead(t)
    \/ \E t \in 1..MaxTicks : TickHeight(t)
    \/ \E t \in 1..MaxTicks : TickLogs(t)
    \/ \E t \in 1..MaxTicks : TickLogsRetry(t)
    \/ \E t \in 1..MaxTicks : TickHandle(t)

Spec == PollInit /\ [][Next]_vars

\* The same bot, keeping the history of failed ticks and their successors.
RefetchInit ==
    /\ rt = RtIdle
    /\ orc = OrcIdle
    /\ sw = SwIdle
    /\ PollStart({"refetch"})

SpecRefetch == RefetchInit /\ [][Next]_vars

\* The same bot, keeping the history of the heights fetched.
CoverageInit ==
    /\ rt = RtIdle
    /\ orc = OrcIdle
    /\ sw = SwIdle
    /\ PollStart({"coverage"})

SpecCoverage == CoverageInit /\ [][Next]_vars

\* The bot of a user who sends /start until the bot has started and not again:
\* one timer, whose pollSwaps calls overlap as before.
FirstStart ==
    /\ timers = 0
    /\ \A s \in 1..MaxStarts : starter[s].pc = "idle"
    /\ StartBegin(1)

NextStartedOnce ==
    \/ ChainAdvance
    \/ FirstStart
    \/ \E s \in 1..MaxStarts : StartRead(s)
    \/ \E s \in 1..MaxStarts : StartSettle(s)
    \/ Sigint
    \/ LaunchRejects
    \/ \E t \in 1..MaxTicks : TickRead(t)
    \/ \E t \in 1..MaxTicks : TickHeight(t)
    \/ \E t \in 1..MaxTicks : TickLogs(t)
    \/ \E t \in 1..MaxTicks : TickLogsRetry(t)
    \/ \E t \in 1..MaxTicks : TickHandle(t)

\* That bot, keeping the history of the handler call of the last step.
HandledInit ==
    /\ rt = RtIdle
    /\ orc = OrcIdle
    /\ sw = SwIdle
    /\ PollStart({"handled"})

SpecHandled == HandledInit /\ [][NextStartedOnce]_vars

\* That bot, keeping the histories of the failed ticks and of the handler
\* call of the last step.
FailuresInit ==
    /\ rt = RtIdle
    /\ orc = OrcIdle
    /\ sw = SwIdle
    /\ PollStart({"refetch", "handled"})

SpecFailures == FailuresInit /\ [][NextStartedOnce]_vars

\* That bot, keeping the histories of the alerts sent and of the handler call
\* of the last step.
OrderInit ==
    /\ rt = RtIdle
    /\ orc = OrcIdle
    /\ sw = SwIdle
    /\ PollStart({"alerts", "handled"})

SpecOrder == OrderInit /\ [][NextStartedOnce]_vars

\* The handleSwapLog call of tick t returns, whatever it ended in: the steps
\* of TickHandle(t) in a bot that keeps no history of the handler calls.
HandlerReturns(t) ==
    /\ Alive
    /\ ticks[t].pc = "handle"
    /\ TickContinue(t, ticks[t].idx + 1, Batch(t))
    /\ gaveUp' = 0
    /\ UNCHANGED <<rt, orc, sw, observe, exits, chainHeight, CHAT_ID, timers, starter, covered,
                   startHeight, notified, handled, failedFrom, refetch>>

\* The scheduling of that bot.  The timer keeps firing, so that a pollSwaps
\* call whose height read succeeds keeps beginning; and every await of a call
\* in flight settles: the RPC answers or times out, the delay of withRetry
\* elapses, handleSwapLog returns.
Fairness ==
    /\ WF_vars(\E t \in 1..MaxTicks : TickRead(t))
    /\ \A t \in 1..MaxTicks :
          /\ WF_vars(TickHeight(t))
          /\ WF_vars(TickLogs(t))
          /\ WF_vars(TickLogsRetry(t))
          /\ WF_vars(HandlerReturns(t))

\* No step is a pollSwaps call ending in its catch because withRetry threw:
\* the height read and the log fetch succeed within their MAX_RETRIES
\* attempts.
FetchWithinRetries == gaveUp' = 0

\* That bot, keeping the history of the calls that gave up.
RecoveryInit ==
    /\ rt = RtIdle
    /\ orc = OrcIdle
    /\ sw = SwIdle
    /\ PollStart({"gaveup"})

\* That bot under its scheduling, in a process that is not ended, with
\* failures that are transient: from some point on the reads succeed within
\* their retries.
SpecRecovery ==
    /\ RecoveryInit
    /\ [][NextStartedOnce]_vars
    /\ Fairness
    /\ []Alive
    /\ <>[][FetchWithinRetries]_vars

\* The same bot, keeping the history of the alerts sent.
AlertsInit ==
    /\ rt = RtIdle
    /\ orc = OrcIdle
    /\ sw = SwIdle
    /\ PollStart({"alerts"})

SpecAlerts == AlertsInit /\ [][Next]_vars

\* ------------------------------------------- specification: withRetry

RetryOutcomes ==
    {Ok([kind |-> "value", id |-> "a"]), Ok([kind |-> "value", id |-> "b"]),
     Fail("timeout"), Fail("bad gateway")}

RetryInit ==
    /\ \E retries \in 0..MaxAttempts, script \in [1..MaxAttempts -> RetryOutcomes] :
          rt = [retries |-> retries, script |-> script, st |-> RetryStart(retries)]
    /\ orc = OrcIdle
    /\ sw = SwIdle
    /\ PollIdle

\* fn is invoked and settles.
RetryInvoke ==
    /\ rt.st.status = "running"
    /\ rt' = [rt EXCEPT !.st = RetryIter(rt.st, rt.script, rt.retries)]
    /\ UNCHANGED <<orc, sw, pollVars>>

\* The delay of line 68 elapses.
RetryDelay ==
    /\ rt.st.status = "waiting"
    /\ rt' = [rt EXCEPT !.st = RetryWake(rt.st, rt.retries)]
    /\ UNCHANGED <<orc, sw, pollVars>>

RetryNext == RetryInvoke \/ RetryDelay

SpecRetry == RetryInit /\ [][RetryNext]_vars

\* ------------------------------------- specification: getBescUsdPrice

OracleInit ==
    /\ \E q1 \in Quote1Results, q2 \in Quote2Results :
          orc = [quote1 |-> q1, quote2 |-> q2,
                 st |-> [pc |-> "hop1", hop1 |-> None,
                         out |-> [status |-> "running", value |-> None]]]
    /\ rt = RtIdle
    /\ sw = SwIdle
    /\ PollIdle

\* The first quote settles.
OracleQuote1 ==
    /\ orc.st.pc = "hop1"
    /\ orc' = [orc EXCEPT !.st = OracleHop1(orc.quote1)]
    /\ UNCHANGED <<rt, sw, pollVars>>

\* The second quote settles.
OracleQuote2 ==
    /\ orc.st.pc = "hop2"
    /\ orc' = [orc EXCEPT !.st = OracleHop2(orc.st, orc.quote2)]
    /\ UNCHANGED <<rt, sw, pollVars>>

OracleNext == OracleQuote1 \/ OracleQuote2

SpecOracle == OracleInit /\ [][OracleNext]_vars

\* --------------------------------------- specification: handleSwapLog

SwapInit ==
    /\ \E l \in SwapLogs, baseSlot \in {0, 1} :
       \E env \in SwapEnvs(baseSlot) :
          sw = [phase |-> "called", baseSlot |-> baseSlot, log |-> l, env |-> env,
                out |-> SwapResult("pending", None, NotCalled)]
    /\ rt = RtIdle
    /\ orc = OrcIdle
    /\ PollIdle

\* The handler runs to its end.
HandleSwapLog ==
    /\ sw.phase = "called"
    /\ sw' = [sw EXCEPT !.phase = "done", !.out = handleSwapLog(sw.log, sw.env)]
    /\ UNCHANGED <<rt, orc, pollVars>>

SwapNext == HandleSwapLog

SpecSwap == SwapInit /\ [][SwapNext]_vars

\* ------------------------------------------------ claims on withRetry

\* The operation of the call fails on every invocation the loop can make.
AlwaysFails == \A i \in 1..rt.retries : ~rt.script[i].ok

\* The operation fails on attempts 1..k-1 and succeeds on attempt k.
FirstSuccessAt(k) ==
    /\ k \in 1..rt.retries
    /\ rt.script[k].ok
    /\ \A i \in 1..(k - 1) : ~rt.script[i].ok

\* C1: for every maxAttempts >= 1, withRetry of an operation that fails on
\* every invocation never invokes it more than maxAttempts times, goes on
\* until it has (the call is over only once the operation was invoked
\* maxAttempts times), and then fails with the error 'Max retries reached: '
\* followed by the message of the last underlying failure.
C1_RetryExhausted ==
    (rt.retries >= 1 /\ AlwaysFails) =>
        /\ rt.st.calls <= rt.retries
        /\ rt.st.status \in {"running", "waiting", "threw"}
        /\ rt.st.status = "threw" =>
              /\ rt.st.calls = rt.retries
              /\ rt.st.value = [kind |-> "Error",
                                message |-> "Max retries reached: "
                                            \o rt.script[rt.retries].msg]

\* A call with three attempts ended in the error, the last failure's message
\* differing from the one before it.
C1_Witness ==
    /\ rt.retries = 3
    /\ AlwaysFails
    /\ rt.st.status = "threw"
    /\ rt.st.calls = 3
    /\ rt.script[2].msg # rt.script[3].msg

\* C2: for every k in 1..maxAttempts, withRetry of an operation that fails on
\* attempts 1..k-1 and succeeds on attempt k never invokes it more than k
\* times, is over as soon as the k-th invocation was made, and returns the
\* value of attempt k after exactly k invocations.
C2_ReturnsFirstSuccess ==
    \A k \in 1..rt.retries :
        FirstSuccessAt(k) =>
            /\ rt.st.calls <= k
            /\ rt.st.status \in {"running", "waiting", "returned"}
            /\ rt.st.calls = k => rt.st.status = "returned"
            /\ rt.st.status = "returned" =>
                  /\ rt.st.calls = k
                  /\ rt.st.value = rt.script[k].val

\* A call failed once, succeeded on attempt 2 of 3 and returned that value,
\* attempt 3 holding another value it never saw.
C2_Witness ==
    /\ rt.retries = 3
    /\ FirstSuccessAt(2)
    /\ rt.script[3].ok
    /\ rt.script[3].val # rt.script[2].val
    /\ rt.st.status = "returned"
    /\ rt.st.calls = 2

\* ------------------------------------------ claims on getBescUsdPrice

\* The output slot of a settled quote is there: the answer is an array that
\* holds index 1.
SlotPresent(q) == ~Threw(q) /\ q.value.present /\ Len(q.value.amounts) >= 2

\* The output slot of a settled quote is there and is not zero.
SlotNonZero(q) == SlotPresent(q) /\ q.value.amounts[2].m # 0

\* The float r is the product of x1 at 18 decimals and x2 at 6 decimals.
IsProductOfHops(r, x1, x2) == r = FMul(formatUnits(x1, 18), formatUnits(x2, 6))

\* C10, as claimed: once the call is over it has returned (never thrown); it
\* returned the product of the two normalized outputs when both quotes
\* settled with a present output slot, and None when a quote exhausted its
\* retries or had no output slot.
C10_Original ==
    orc.st.pc = "done" =>
        /\ orc.st.out.status = "returned"
        /\ (SlotPresent(orc.quote1) /\ SlotPresent(orc.quote2)) =>
              IsProductOfHops(orc.st.out.value, orc.quote1.value.amounts[2],
                              orc.quote2.value.amounts[2])
        /\ (~SlotPresent(orc.quote1) \/ ~SlotPresent(orc.quote2)) =>
              orc.st.out.value = None

\* C10, amended: a zero output counts as missing.  Once the call is over it
\* has returned (never thrown); it returned the product of the two normalized
\* outputs when both quotes settled with a present, non-zero output slot, and
\* None when a quote exhausted its retries or had a missing or zero output
\* slot.  Before the second quote has settled nothing is returned.
C10_OracleComposition ==
    /\ orc.st.pc = "done" =>
          /\ orc.st.out.status = "returned"
          /\ (SlotNonZero(orc.quote1) /\ SlotNonZero(orc.quote2)) =>
                IsProductOfHops(orc.st.out.value, orc.quote1.value.amounts[2],
                                orc.quote2.value.amounts[2])
          /\ (~SlotNonZero(orc.quote1) \/ ~SlotNonZero(orc.quote2)) =>
                orc.st.out.value = None
    /\ orc.st.pc \in {"hop1", "hop2"} => orc.st.out.status = "running"

\* Quotes of 2 * 10^18 (2.0 at 18 decimals) and 25 * 10^5 (2.5 at 6 decimals)
\* gave the price 5.
C10_Witness ==
    /\ orc.st.pc = "done"
    /\ SlotNonZero(orc.quote1)
    /\ SlotNonZero(orc.quote2)
    /\ orc.quote1.value.amounts[2] = Big(2, 18)
    /\ orc.quote2.value.amounts[2] = Big(25, 5)
    /\ orc.st.out = [status |-> "returned", value |-> Float(5)]

\* ------------------------------------------- specification: fetchStats

\* The reserves of two pools holding 500 BESC and 1000 MONEY: as raw amounts
\* at 9 and 18 decimals, and with the two precisions exchanged.
ScenarioReserves(baseSlot) ==
    {IF baseSlot = 0 THEN <<base, target>> ELSE <<target, base>> :
        <<base, target>> \in {<<Big(5, 11), Big(1, 21)>>, <<Big(5, 20), Big(1, 12)>>}}

StatsScenarios(baseSlot) ==
    {[GoodStats EXCEPT !.reserves = Settled(r), !.tokens = Settled(PoolTokens(baseSlot))] :
        r \in ScenarioReserves(baseSlot)}

StatsInit ==
    /\ \E baseSlot \in {0, 1} :
       \E env \in StatsEnvs(baseSlot) \cup StatsScenarios(baseSlot) :
          sw = [phase |-> "fetching", baseSlot |-> baseSlot, env |-> env,
                out |-> StatsCatch(<<>>, FALSE)]
    /\ rt = RtIdle
    /\ orc = OrcIdle
    /\ PollIdle

\* fetchStats runs to its end.
FetchStats ==
    /\ sw.phase = "fetching"
    /\ sw' = [sw EXCEPT !.phase = "fetched", !.out = fetchStats(sw.env)]
    /\ UNCHANGED <<rt, orc, pollVars>>

StatsNext == FetchStats

SpecStats == StatsInit /\ [][StatsNext]_vars

\* -------------------------------------------- claims on handleSwapLog

\* The 'in' and 'out' legs of a log by pool slot.
InLeg(l, slot) == IF slot = 0 THEN l.amount0In ELSE l.amount1In

OutLeg(l, slot) == IF slot = 0 THEN l.amount0Out ELSE l.amount1Out

\* The handler took the decoded log for a buy: it went on past line 176.
TreatedAsBuy == sw.out.outcome # "skip"

\* A skip sends nothing and is no error.
SilentSkip == sw.out.outcome = "skip" /\ sw.out.message = None

\* C7, as claimed: a decoded log is treated as a buy iff exactly one 'in' leg
\* is positive and the 'out' leg of the other slot is positive; every other
\* shape is skipped, silently.
C7_Original ==
    (sw.phase = "done" /\ sw.log.valid) =>
        LET one == \E s \in {0, 1} :
                      /\ InLeg(sw.log, s) > 0
                      /\ InLeg(sw.log, 1 - s) = 0
                      /\ OutLeg(sw.log, 1 - s) > 0
        IN  /\ TreatedAsBuy <=> one
            /\ ~one => SilentSkip

\* C7, amended: a decoded log is treated as a buy iff some 'in' leg is
\* positive and the 'out' leg of the other slot is positive, also when both
\* 'in' legs are positive; every other shape is skipped, silently.
C7_Classifier ==
    (sw.phase = "done" /\ sw.log.valid) =>
        LET some == \E s \in {0, 1} :
                       /\ InLeg(sw.log, s) > 0
                       /\ OutLeg(sw.log, 1 - s) > 0
        IN  /\ TreatedAsBuy <=> some
            /\ ~some => SilentSkip

\* A log with both 'in' legs positive and a positive 'out' leg was alerted.
C7_Witness ==
    /\ sw.phase = "done"
    /\ sw.log.valid
    /\ sw.log.amount0In > 0
    /\ sw.log.amount1In > 0
    /\ sw.log.amount1Out > 0
    /\ sw.out.outcome = "sent"

\* C8: a notification is sent only for a swap with the base asset as an
\* input leg and the tracked token as an output leg, for either slot
\* assignment; a swap in the opposite direction alone (tracked token in, base
\* asset out) is never notified.
C8_OnlyBuysNotified ==
    sw.out.outcome = "sent" =>
        LET base   == sw.baseSlot
            target == 1 - sw.baseSlot
        IN  /\ InLeg(sw.log, base) > 0
            /\ OutLeg(sw.log, target) > 0
            /\ ~(/\ InLeg(sw.log, target) > 0 /\ OutLeg(sw.log, base) > 0
                 /\ InLeg(sw.log, base) = 0 /\ OutLeg(sw.log, target) = 0)

\* Some step of fetchStats fails in environment e of a pool: a read exhausts
\* its retries, the tracked token's reserve is zero, or the oracle has no price.
StatsStepFails(e, baseSlot) ==
    \/ Threw(e.reserves)
    \/ Threw(e.tokens)
    \/ e.reserves.value[(1 - baseSlot) + 1].m = 0
    \/ getBescUsdPrice(e.quote1, e.quote2).value = None
    \/ Threw(e.decimals)
    \/ Threw(e.supply)

\* All four fields of a snapshot are numbers.
CompleteSnapshot(x) ==
    /\ x.kind = "snapshot"
    /\ \A f \in {"priceUsd", "marketCap", "liquidityUsd", "supply"} : x[f].kind = "num"

\* C9: what fetchStats returned to the handler is None or a snapshot with all
\* four fields computed, and is None whenever one of its steps failed; a
\* handler whose fetchStats returned None called sendMessage with nothing.
C9_NoPartialSnapshot ==
    (sw.phase = "done" /\ sw.out.stats # NotCalled) =>
        /\ sw.out.stats = None \/ CompleteSnapshot(sw.out.stats)
        /\ StatsStepFails(sw.env.stats, sw.baseSlot) => sw.out.stats = None
        /\ sw.out.stats = None => (sw.out.outcome = "nostats" /\ sw.out.message = None)

\* A buy with a recipient set and a working sendMessage was not alerted: the
\* supply read of fetchStats, its last step, had failed.
C9_Witness ==
    /\ sw.phase = "done"
    /\ sw.log.valid /\ sw.log.amount0In > 0 /\ sw.log.amount1Out > 0
    /\ sw.env.chatId # NoChat /\ sw.env.sendOk
    /\ Threw(sw.env.stats.supply)
    /\ ~Threw(sw.env.stats.reserves) /\ ~Threw(sw.env.stats.tokens)
    /\ ~Threw(sw.env.stats.decimals)
    /\ getBescUsdPrice(sw.env.stats.quote1, sw.env.stats.quote2).value # None
    /\ sw.out.stats = None
    /\ sw.out.outcome = "nostats"

\* --------------------------------------------------- claims on the poller

\* C3: once the start handler has set the cursor and registered the timer, no
\* step assigns lastBlock a value lower than the one it held, whatever the
\* outcomes of the ticks and however the calls made by that timer interleave.
C3_CursorNonDecreasing ==
    [][\A t \in 1..MaxTicks :
          (timers = 1 /\ ticks'[t] # ticks[t]) => lastBlock' >= lastBlock]_vars

\* C4: the first tick to ask for logs after a tick ended in the catch asks
\* from the fromBlock the failed tick used.
C4_SameRangeRetried == refetch.want = refetch.got

\* The step of this state pair is a step of the pollSwaps call of slot t.
TickActs(t) == ticks'[t] # ticks[t]

\* C5: a tick whose getLogs succeeded sets the cursor to its own currentBlock
\* in the step that ends the handling of the last log of its batch (the step
\* the fetch settles in, for an empty batch), and none of its steps changes
\* the cursor while a log of its batch is still to be handled.
C5_CursorAfterBatch ==
    [][\A t \in 1..MaxTicks :
          TickActs(t) =>
            /\ ticks[t].pc = "handle" =>
                  IF ticks[t].idx + 1 < Len(Batch(t))
                  THEN /\ lastBlock' = lastBlock
                       /\ ticks'[t].pc = "handle"
                       /\ ticks'[t].idx = ticks[t].idx + 1
                  ELSE /\ lastBlock' = ticks[t].currentBlock
                       /\ ticks'[t].pc = "idle"
            /\ ticks[t].pc = "logs" =>
                  /\ ticks'[t].pc = "handle" =>
                        (lastBlock' = lastBlock /\ ticks'[t].idx = 0 /\ Batch(t) # <<>>)
                  /\ lastBlock' # lastBlock =>
                        (lastBlock' = ticks[t].currentBlock /\ Batch(t) = <<>>)
            /\ ticks[t].pc \in {"idle", "height"} => lastBlock' = lastBlock]_vars

\* A tick has handled a log of its batch, has another still to handle, and the
\* cursor is not yet at its currentBlock.
C5_Witness ==
    \E t \in 1..MaxTicks :
        /\ ticks[t].pc = "handle"
        /\ ticks[t].idx >= 1
        /\ ticks[t].idx < Len(Batch(t))
        /\ lastBlock < ticks[t].currentBlock

\* C6: every height above the first start's and up to the cursor was inside
\* the range of a getLogs that succeeded.
C6_NoRangeSkipped ==
    startHeight # 0 => \A h \in (startHeight + 1)..lastBlock : h \in covered

\* ----------------------------------------------- claims on fetchStats

\* The raw reserves of the pool by role: the target token (MONEY) is in the
\* slot the base asset (BESC) is not in.
BaseReserve == sw.env.reserves.value[sw.baseSlot + 1]

TargetReserve == sw.env.reserves.value[2 - sw.baseSlot]

ReservesRead == ~Threw(sw.env.reserves) /\ ~Threw(sw.env.tokens)

\* C11: when the target-token reserve is zero, fetchStats returns None having
\* performed no division and started no read after those of the reserves and
\* the two token addresses: no oracle quote, no decimals, no totalSupply.
C11_ZeroReserveGuard ==
    (sw.phase = "fetched" /\ ReservesRead /\ TargetReserve.m = 0) =>
        /\ sw.out.value = None
        /\ ~sw.out.divided
        /\ sw.out.calls = <<"getReserves", "token0", "token1">>

\* A pool with a base reserve and no target reserve, every later read of
\* which would have succeeded, gave None.
C11_Witness ==
    /\ sw.phase = "fetched"
    /\ ReservesRead
    /\ TargetReserve.m = 0 /\ BaseReserve.m # 0
    /\ getBescUsdPrice(sw.env.quote1, sw.env.quote2).value # None
    /\ ~Threw(sw.env.decimals) /\ ~Threw(sw.env.supply)
    /\ sw.out.value = None

\* A pool with the given raw reserves, an oracle price of 2.0 and a total
\* supply of 10_000_000_000 raw at 6 decimals.
Scenario(base, target) ==
    /\ sw.phase = "fetched"
    /\ ReservesRead
    /\ BaseReserve = base /\ TargetReserve = target
    /\ getBescUsdPrice(sw.env.quote1, sw.env.quote2).value = Float(2)
    /\ sw.env.decimals = Settled(6)
    /\ sw.env.supply = Settled(Big(1, 10))

\* C12, as claimed: the target reserve is scaled by 9 decimals and the base
\* reserve by 18, so that target reserve 1_000_000_000_000 raw and base
\* reserve 500_000_000_000_000_000_000 raw give priceUsd 1.0, marketCap 10,000
\* and liquidityUsd 2000.
C12_Original ==
    Scenario(Big(5, 20), Big(1, 12)) =>
        sw.out.value = Snapshot(Float(1), Float(10000), Float(2000), Float(10000))

\* C12, amended: the base reserve is scaled by 9 decimals and the target
\* reserve by 18, so that base reserve 500_000_000_000 raw (500) and target
\* reserve 10^21 raw (1000) give priceUsd 1.0, marketCap 10,000 and
\* liquidityUsd 2000 (base reserve * price * 2), and the raw reserves of the
\* claim give priceUsd 10^18, marketCap 10^22 and liquidityUsd 2 * 10^12.
C12_Normalization ==
    /\ Scenario(Big(5, 11), Big(1, 21)) =>
          sw.out.value = Snapshot(Float(1), Float(10000), Float(2000), Float(10000))
    /\ Scenario(Big(5, 20), Big(1, 12)) =>
          sw.out.value = Snapshot(Decimal(1, 18), Decimal(1, 22), Decimal(2, 12), Float(10000))

\* The pool of 500 BESC and 1000 MONEY was priced at 1.0 with the base asset
\* in slot 1.
C12_Witness ==
    /\ Scenario(Big(5, 11), Big(1, 21))
    /\ sw.baseSlot = 1
    /\ sw.out.value # None
    /\ sw.out.value.priceUsd = Float(1)

\* ------------------------------------------ claims on the batch of a tick

\* The outcomes of a handleSwapLog call that are failures: an error caught at
\* lines 209-211 (parseLog, the decimals read, sendMessage), and no snapshot.
HandlerFailed(outcome) == outcome \in {"error", "nostats"}

\* The step is the one in which tick t's handleSwapLog call for the log at
\* position pos of its batch settles.
HandlerSettles(t, pos) ==
    /\ ticks[t].pc = "handle"
    /\ ticks[t].idx + 1 = pos
    /\ handled'.tick = t
    /\ handled'.pos = pos

\* C13: a tick whose getLogs succeeded calls handleSwapLog for the first log
\* of its batch, and when its call for the log at position pos settles,
\* failed or not, it calls handleSwapLog for the log at pos + 1 if the batch
\* has one, and is over, the cursor set, only after the call for the last.
C13_FailureDoesNotAbortBatch ==
    [][\A t \in 1..MaxTicks :
          /\ (TickActs(t) /\ ticks[t].pc = "logs" /\ Batch(t) # <<>>) =>
                (ticks'[t].pc = "idle" => lastBlock' = lastBlock)
          /\ (TickActs(t) /\ ticks[t].pc = "handle") =>
                /\ HandlerSettles(t, ticks[t].idx + 1)
                /\ IF handled'.pos < Len(Batch(t))
                   THEN ticks'[t] = [ticks[t] EXCEPT !.idx = handled'.pos]
                   ELSE ticks'[t].pc = "idle" /\ lastBlock' = ticks[t].currentBlock]_vars

\* The call for the first log of a batch has just failed, and the tick is in
\* its call for the second.
C13_Witness ==
    /\ HandlerFailed(handled.outcome)
    /\ handled.pos = 1
    /\ ticks[handled.tick].pc = "handle"
    /\ ticks[handled.tick].idx = 1
    /\ Len(Batch(handled.tick)) >= 2

\* -------------------------------------------- claims on the polling loop

\* A pollSwaps call is waiting for its next timer, or is at one of its awaits.
TickAlive(t) == ticks[t].pc \in {"idle", "height", "logs", "handle"}

\* C14: whatever failed (a height read or a log fetch out of retries, a
\* handler call ending in an error or without a snapshot), no pollSwaps call
\* ends rejected, no step of a call ends the process, no step takes a timer
\* away, and once a timer is registered a call from it can begin whenever a
\* slot is free, for as long as the process runs.
C14_PollingSurvives ==
    /\ [](/\ \A t \in 1..MaxTicks : TickAlive(t)
          /\ (Alive /\ startHeight # 0 /\ \E t \in 1..MaxTicks : ticks[t].pc = "idle") =>
                (timers > 0 /\ ENABLED (\E t \in 1..MaxTicks : TickRead(t))))
    /\ [][/\ timers' >= timers
          /\ \A t \in 1..MaxTicks : TickActs(t) => exits' = exits]_vars

\* A tick has ended in the catch of pollSwaps, no call is in flight, and the
\* timer is registered.
C14_Witness ==
    /\ failedFrom # 0
    /\ \A t \in 1..MaxTicks : ticks[t].pc = "idle"
    /\ timers = 1
    /\ Alive

\* ------------------------------------------- claims on the /start handler

\* C15: at most one timer is ever registered, and a /start handled once a
\* timer is registered registers none and leaves the cursor as it is.
C15_SingleActivation ==
    /\ [](timers <= 1)
    /\ [][(timers >= 1 /\ starter' # starter) =>
             (timers' = timers /\ lastBlock' = lastBlock)]_vars

\* A pollSwaps call is past its height read: it has asked for logs.
TickFetching(t) == ticks[t].pc \in {"logs", "handle"}

\* C16: no pollSwaps call is past its height read before a start has set the
\* cursor, and the fromBlock of every getLogs a call makes is above the
\* height the first start to set the cursor had read.
C16_NoHistoricalReplay ==
    \A t \in 1..MaxTicks :
        TickFetching(t) => (startHeight >= 1 /\ ticks[t].fromBlock > startHeight)

\* --------------------------------------- claims on the order of handling

\* The log at position pos of tick t's batch, as the alerts history names it.
LogAt(t, pos) == <<Batch(t)[pos].block, Batch(t)[pos].index>>

\* C17: a tick has one handleSwapLog call at a time, for the logs of its batch
\* in the order of the batch: the call that settles is the one for the log
\* right after those already handled, the only alert sent in that step is the
\* one for that log, and the call the tick is in afterwards is for the log
\* that follows; no other step of the tick sends an alert.
C17_SequentialInOrder ==
    [][\A t \in 1..MaxTicks :
          /\ (TickActs(t) /\ ticks[t].pc = "handle") =>
                /\ handled'.tick = t
                /\ handled'.pos = ticks[t].idx + 1
                /\ notified' \ notified \subseteq {LogAt(t, ticks[t].idx + 1)}
                /\ handled'.outcome = "sent" => LogAt(t, ticks[t].idx + 1) \in notified'
                /\ ticks'[t].pc = "handle" => ticks'[t].idx = ticks[t].idx + 1
          /\ (TickActs(t) /\ ticks[t].pc # "handle") =>
                /\ notified' = notified
                /\ ticks'[t].pc = "handle" => ticks'[t].idx = 0]_vars

\* A tick with the three logs of blocks 2 and 3 has sent the alert for the
\* first, has just skipped the second, and is in its call for the third, for
\* which no alert was sent yet.
C17_Witness ==
    /\ handled.pos = 2 /\ handled.outcome = "skip"
    /\ ticks[handled.tick].pc = "handle"
    /\ ticks[handled.tick].idx = 2
    /\ Len(Batch(handled.tick)) = 3
    /\ LogAt(handled.tick, 1) \in notified
    /\ LogAt(handled.tick, 3) \notin notified

\* ------------------------------------------- claims on overlapping ticks

\* The heights of the range tick t asks the logs of.
TickRange(t) == ticks[t].fromBlock..ticks[t].currentBlock

\* C18: with the one timer of a single start, at most one pollSwaps call is
\* between its read of the cursor (lines 220, 226) and its write of it (line
\* 236), and no getLogs that returns logs has in its range a height that was
\* in the range of an earlier successful getLogs.
C18_NoTickRace ==
    /\ [](timers = 1 => Cardinality({t \in 1..MaxTicks : TickFetching(t)}) <= 1)
    /\ [][timers = 1 =>
             \A t \in 1..MaxTicks :
                (TickActs(t) /\ ticks[t].pc = "logs" /\ ticks'[t].pc = "handle") =>
                    TickRange(t) \cap covered = {}]_vars

\* ------------------------------------------- claims on the amounts of a buy

\* The amounts the alert was built from are the 'in' leg of slot s and the
\* 'out' leg of the other slot, both positive.
AlertFromLegs(s) ==
    /\ InLeg(sw.log, s) > 0
    /\ OutLeg(sw.log, 1 - s) > 0
    /\ sw.out.message.paid = formatUnits(Big(InLeg(sw.log, s), 0), 9)
    /\ sw.out.message.received =
          formatUnits(Big(OutLeg(sw.log, 1 - s), 0), sw.env.decimals.value)

\* C19: the amounts in the alert of a log taken for a buy are those of an 'in'
\* leg and of the 'out' leg of the opposite slot, both positive: never the
\* two legs of one slot, never a zero leg.
C19_OppositeSlots ==
    (sw.phase = "done" /\ sw.out.message # None) =>
        \E s \in {0, 1} : AlertFromLegs(s)

\* ---------------------------------------------------- claims on recovery

\* C20: under the scheduling of the timer and with failures that are
\* transient, whenever a tick has read a height h above the cursor, the
\* cursor is eventually at least h.
C20_Recovery ==
    \A h \in 1..MaxHeight :
        (\E t \in 1..MaxTicks : TickFetching(t) /\ ticks[t].currentBlock = h)
            ~> (lastBlock >= h)

\* A getLogs has failed twice, and the cursor is below the height its tick
\* read.
C20_Witness ==
    \E t \in 1..MaxTicks :
        /\ ticks[t].pc = "logs"
        /\ ticks[t].fetch.attempt = MAX_RETRIES
        /\ lastBlock < ticks[t].currentBlock

====
